---- MODULE Spec2Model ----
(***************************************************************************)
(* ISO 2709 / MARC21 record codec of bookwyrm.                             *)
(*   encoder: scripts/generate_dummy_marc.js (buildField, buildRecord)     *)
(*   decoder: MarcParser (parse, parseRecord, processField)                *)
(* Byte buffers are sequences of integers 0..255.  JavaScript strings are  *)
(* sequences of code points; the model keeps to code points below 0x800    *)
(* (one- and two-byte UTF-8) and to bytes below 0xE0.                      *)
(***************************************************************************)
EXTENDS Integers, Sequences, FiniteSets, TLC

(***************************************************************************)
(* Format constants                                                        *)
(***************************************************************************)
SubfieldDelimiter == 31
FieldTerminator == 30
RecordTerminator == 29
LeaderLength == 24
EntryLength == 12
ReplacementChar == 65533

\* JavaScript's NaN: every comparison with it is false, arithmetic keeps it.
NaN == -1000000000

IsNaN(x) == x = NaN

Add(a, b) == IF IsNaN(a) \/ IsNaN(b) THEN NaN ELSE a + b

Lt(a, b) == ~IsNaN(a) /\ ~IsNaN(b) /\ a < b

Ge(a, b) == ~IsNaN(a) /\ ~IsNaN(b) /\ a >= b

Min(a, b) == IF a < b THEN a ELSE b

Max(a, b) == IF a > b THEN a ELSE b

Repeat(c, k) == [i \in 1..k |-> c]

(***************************************************************************)
(* String helpers (String.prototype.substring, String(n), padStart)        *)
(***************************************************************************)
\* str.substring(from, to), 0-based, to exclusive, both clamped to the length.
Substring(str, from, to) ==
    LET a == Min(Max(from, 0), Len(str))
        b == Min(Max(to, 0), Len(str))
    IN  SubSeq(str, Min(a, b) + 1, Max(a, b))

\* str.substring(from)
SubstringFrom(str, from) == Substring(str, from, Len(str))

RECURSIVE ToStr(_)
\* String(n) for an integer n >= 0: its decimal digits.
ToStr(n) == IF n < 10 THEN <<48 + n>> ELSE ToStr(n \div 10) \o <<48 + (n % 10)>>

\* str.padStart(width, '0'): a string already that long is returned unchanged.
PadStart(str, width) ==
    IF Len(str) >= width THEN str ELSE Repeat(48, width - Len(str)) \o str

(***************************************************************************)
(* UTF-8: Buffer.from(str, 'utf8') and TextDecoder('utf-8').decode         *)
(***************************************************************************)
EncChar(c) == IF c < 128 THEN <<c>> ELSE <<192 + (c \div 64), 128 + (c % 64)>>

RECURSIVE enc(_)
\* The UTF-8 bytes of a string, character by character (split in halves so
\* that long strings do not nest deeply).
enc(str) ==
    IF Len(str) = 0 THEN <<>>
    ELSE IF Len(str) = 1 THEN EncChar(str[1])
    ELSE LET m == Len(str) \div 2
         IN  enc(SubSeq(str, 1, m)) \o enc(SubSeq(str, m + 1, Len(str)))

IsContinuation(b) == b >= 128 /\ b < 192

RECURSIVE DecodeFrom(_, _)
\* The decoder's scan from byte i: an ASCII byte is itself, a two-byte lead
\* followed by a continuation byte is one character, any other byte is
\* replaced by U+FFFD and the scan resumes at the next byte.
DecodeFrom(bytes, i) ==
    IF i > Len(bytes) THEN <<>>
    ELSE LET b == bytes[i]
         IN  IF b < 128 THEN <<b>> \o DecodeFrom(bytes, i + 1)
             ELSE IF b >= 194 /\ b < 224 /\ i < Len(bytes) /\ IsContinuation(bytes[i + 1])
                  THEN <<(b - 192) * 64 + (bytes[i + 1] - 128)>> \o DecodeFrom(bytes, i + 2)
                  ELSE <<ReplacementChar>> \o DecodeFrom(bytes, i + 1)

RECURSIVE decode(_)
\* decoder.decode(bytes).  A byte that is not a continuation byte always starts
\* a new character, so a long input is cut at such a byte and the halves are
\* decoded on their own.
decode(bytes) ==
    IF Len(bytes) <= 32 THEN DecodeFrom(bytes, 1)
    ELSE LET mid == Len(bytes) \div 2
             cuts == {j \in mid..Min(mid + 4, Len(bytes)) : ~IsContinuation(bytes[j])}
         IN  IF cuts = {} THEN DecodeFrom(bytes, 1)
             ELSE LET j == CHOOSE x \in cuts : \A y \in cuts : x <= y
                  IN  decode(SubSeq(bytes, 1, j - 1)) \o decode(SubSeq(bytes, j, Len(bytes)))

(***************************************************************************)
(* parseInt                                                                *)
(***************************************************************************)
IsDigit(c) == c >= 48 /\ c <= 57

IsHexDigit(c) == IsDigit(c) \/ (c >= 65 /\ c <= 70) \/ (c >= 97 /\ c <= 102)

HexValue(c) == IF IsDigit(c) THEN c - 48 ELSE IF c >= 97 THEN c - 87 ELSE c - 55

\* StrWhiteSpaceChar among the modelled code points.
IsWhiteSpace(c) == c \in {9, 10, 11, 12, 13, 32, 160}

RECURSIVE SkipWhiteSpace(_)
SkipWhiteSpace(str) ==
    IF Len(str) > 0 /\ IsWhiteSpace(str[1]) THEN SkipWhiteSpace(Tail(str)) ELSE str

RECURSIVE DigitsValue(_, _, _)
\* The value of the longest prefix of str made of digits of the radix, read
\* after acc; NaN when acc is NaN and there is no digit.
DigitsValue(str, radix, acc) ==
    IF Len(str) > 0 /\ (IF radix = 16 THEN IsHexDigit(str[1]) ELSE IsDigit(str[1]))
    THEN DigitsValue(Tail(str), radix, (IF IsNaN(acc) THEN 0 ELSE acc) * radix + HexValue(str[1]))
    ELSE acc

\* parseInt(str, radix); radix 0 stands for the one-argument call, which reads
\* a "0x"/"0X" prefix as hexadecimal.
ParseInt(str, radix) ==
    LET s1 == SkipWhiteSpace(str)
        neg == Len(s1) > 0 /\ s1[1] = 45
        s2 == IF Len(s1) > 0 /\ s1[1] \in {43, 45} THEN Tail(s1) ELSE s1
        hex == radix = 0 /\ Len(s2) >= 2 /\ s2[1] = 48 /\ s2[2] \in {88, 120}
        v == IF hex THEN DigitsValue(SubSeq(s2, 3, Len(s2)), 16, NaN)
             ELSE DigitsValue(s2, 10, NaN)
    IN  IF IsNaN(v) THEN NaN ELSE IF neg THEN 0 - v ELSE v

(***************************************************************************)
(* Encoder: scripts/generate_dummy_marc.js                                 *)
(***************************************************************************)
RECURSIVE SubfieldsContent(_)
\* subfields.forEach(sf => content += '\x1F' + sf.code + sf.value)
SubfieldsContent(subfields) ==
    IF subfields = <<>> THEN <<>>
    ELSE <<SubfieldDelimiter>> \o Head(subfields).code \o Head(subfields).value
         \o SubfieldsContent(Tail(subfields))

\* buildField(tag, ind1, ind2, subfields): for a control field `subfields` is
\* the raw text.
buildField(tag, ind1, ind2, subfields) ==
    IF Ge(ParseInt(tag, 0), 10)
    THEN [tag |-> tag,
          content |-> ind1 \o ind2 \o SubfieldsContent(subfields) \o <<FieldTerminator>>]
    ELSE [tag |-> tag, content |-> subfields \o <<FieldTerminator>>]

RECURSIVE DataBlock(_)
\* First loop of buildRecord: data = concat of enc(f.content).
DataBlock(fields) ==
    IF fields = <<>> THEN <<>>
    ELSE enc(Head(fields).content) \o DataBlock(Tail(fields))

\* One directory entry: tag + 4-digit length + 5-digit start.
DirectoryEntry(f, currentOffset) ==
    enc(f.tag \o PadStart(ToStr(Len(enc(f.content))), 4) \o PadStart(ToStr(currentOffset), 5))

RECURSIVE DirectoryStuckOffset(_, _)
\* Directory with the bug of never advancing currentOffset.
DirectoryStuckOffset(fields, currentOffset) ==
    IF fields = <<>> THEN <<>>
    ELSE DirectoryEntry(Head(fields), currentOffset)
         \o DirectoryStuckOffset(Tail(fields), currentOffset)

RECURSIVE Directory(_, _)
\* Second loop of buildRecord, tracking currentOffset.
Directory(fields, currentOffset) ==
    IF fields = <<>> THEN <<>>
    ELSE DirectoryEntry(Head(fields), currentOffset)
         \o Directory(Tail(fields), currentOffset + Len(enc(Head(fields).content)))

\* The fixed template bytes of the leader: "nam a22" and " a 4500".
LeaderMiddle == <<110, 97, 109, 32, 97, 50, 50>>

LeaderTail == <<32, 97, 32, 52, 53, 48, 48>>

\* buildRecord with the mistake of closing the record with the field terminator.
buildRecordFieldTerminated(fields) ==
    LET data == DataBlock(fields)
        directory == Directory(fields, 0) \o enc(<<FieldTerminator>>)
        baseAddress == LeaderLength + Len(directory)
        totalLength == baseAddress + Len(data) + 1
        lenStr == PadStart(ToStr(totalLength), 5)
        baseAddrStr == PadStart(ToStr(baseAddress), 5)
        leader == lenStr \o LeaderMiddle \o baseAddrStr \o LeaderTail
    IN  enc(leader) \o directory \o data \o enc(<<FieldTerminator>>)

\* buildRecord(fields): leader, directory, data, record terminator.
buildRecord(fields) ==
    LET data == DataBlock(fields)
        directory == Directory(fields, 0) \o enc(<<FieldTerminator>>)
        baseAddress == LeaderLength + Len(directory)
        totalLength == baseAddress + Len(data) + 1
        lenStr == PadStart(ToStr(totalLength), 5)
        baseAddrStr == PadStart(ToStr(baseAddress), 5)
        leader == lenStr \o LeaderMiddle \o baseAddrStr \o LeaderTail
    IN  enc(leader) \o directory \o data \o enc(<<RecordTerminator>>)

RECURSIVE ConcatRecords(_)
\* Buffer.concat(records.map(buildRecord))
ConcatRecords(records) ==
    IF records = <<>> THEN <<>>
    ELSE buildRecord(Head(records)) \o ConcatRecords(Tail(records))

(***************************************************************************)
(* Decoder: MarcParser                                                     *)
(***************************************************************************)
\* new Uint8Array(buffer, byteOffset, length) raises a RangeError when the
\* offset or the length is negative or the view runs past the buffer; NaN is
\* read as 0.
ToIndex(x) == IF IsNaN(x) THEN 0 ELSE x

ViewThrows(buffer, byteOffset, length) ==
    \/ ToIndex(byteOffset) < 0
    \/ ToIndex(length) < 0
    \/ ToIndex(byteOffset) + ToIndex(length) > Len(buffer)

\* The bytes of a view that did not raise.
View(buffer, byteOffset, length) ==
    SubSeq(buffer, ToIndex(byteOffset) + 1, ToIndex(byteOffset) + ToIndex(length))

\* buffer.slice(begin, end) for 0 <= begin <= end <= byteLength.
Slice(buffer, begin, end) == SubSeq(buffer, begin + 1, end)

RECURSIVE Split(_)
\* str.split('\x1F'): the chunks between delimiters; at least one chunk.
Split(str) ==
    IF \A i \in 1..Len(str) : str[i] # SubfieldDelimiter THEN <<str>>
    ELSE LET p == CHOOSE i \in 1..Len(str) :
                      /\ str[i] = SubfieldDelimiter
                      /\ \A j \in 1..(i - 1) : str[j] # SubfieldDelimiter
         IN  <<SubSeq(str, 1, p - 1)>> \o Split(SubSeq(str, p + 1, Len(str)))

RECURSIVE ChunksToSubfieldsKeepEmpty(_, _)
\* ChunksToSubfields with the bug of skipping no chunk.
ChunksToSubfieldsKeepEmpty(chunks, index) ==
    IF index >= Len(chunks) THEN <<>>
    ELSE <<[code |-> Substring(chunks[index + 1], 0, 1),
            data |-> SubstringFrom(chunks[index + 1], 1)]>>
         \o ChunksToSubfieldsKeepEmpty(chunks, index + 1)

RECURSIVE ChunksToSubfieldsStopAtEmpty(_, _)
\* ChunksToSubfields with the mistake of giving up at an empty chunk after the
\* first instead of skipping it.
ChunksToSubfieldsStopAtEmpty(chunks, index) ==
    IF index >= Len(chunks) THEN <<>>
    ELSE LET chunk == chunks[index + 1]
             rest == ChunksToSubfieldsStopAtEmpty(chunks, index + 1)
         IN  IF index = 0 /\ chunk = <<>> THEN rest
             ELSE IF Len(chunk) > 0
                  THEN <<[code |-> Substring(chunk, 0, 1), data |-> SubstringFrom(chunk, 1)]>> \o rest
                  ELSE <<>>

RECURSIVE ChunksToSubfields(_, _)
\* chunks.forEach((chunk, index) => ...): the leading empty chunk is skipped,
\* every other non-empty chunk gives one subfield.
ChunksToSubfields(chunks, index) ==
    IF index >= Len(chunks) THEN <<>>
    ELSE LET chunk == chunks[index + 1]
             rest == ChunksToSubfields(chunks, index + 1)
         IN  IF index = 0 /\ chunk = <<>> THEN rest
             ELSE IF Len(chunk) > 0
                  THEN <<[code |-> Substring(chunk, 0, 1), data |-> SubstringFrom(chunk, 1)]>> \o rest
                  ELSE rest

\* processField(field): field = {tag, value, isControlField}.
processField(field) ==
    IF field.isControlField
    THEN [tag |-> field.tag, text |-> field.value]
    ELSE [tag |-> field.tag,
          ind1 |-> Substring(field.value, 0, 1),
          ind2 |-> Substring(field.value, 1, 2),
          subfields |-> ChunksToSubfields(Split(SubstringFrom(field.value, 2)), 0)]

\* The byte offset at which the directory loop of parseRecord reads its k-th
\* entry (k = 0, 1, ...).
EntryOffset(k) == LeaderLength + EntryLength * k

\* The directory loop leaves before reading entry k: the loop condition fails,
\* the buffer is too short for 12 more bytes, or the byte is the terminator.
DirectoryStops(buffer, directoryEnd, k) ==
    \/ ~Lt(EntryOffset(k), directoryEnd)
    \/ Len(buffer) < EntryOffset(k) + EntryLength
    \/ buffer[EntryOffset(k) + 1] = FieldTerminator

\* The number of entries the directory loop pushes: the first k at which it stops.
EntryCount(buffer, directoryEnd) ==
    CHOOSE k \in 0..(Len(buffer) \div EntryLength) :
        /\ DirectoryStops(buffer, directoryEnd, k)
        /\ \A j \in 0..(k - 1) : ~DirectoryStops(buffer, directoryEnd, j)

\* The entry read at byte offset i: {tag, length, start}.
ReadEntry(buffer, i) ==
    LET entryStr == decode(View(buffer, i, EntryLength))
    IN  [tag |-> Substring(entryStr, 0, 3),
         length |-> ParseInt(Substring(entryStr, 3, 7), 10),
         start |-> ParseInt(Substring(entryStr, 7, 12), 10)]

\* directoryEntries with the mistake of listing the entries by data position.
directoryEntriesByStart(buffer, directoryEnd) ==
    SortSeq([k \in 1..EntryCount(buffer, directoryEnd) |-> ReadEntry(buffer, EntryOffset(k - 1))],
            LAMBDA a, b : a.start < b.start)

directoryEntries(buffer, directoryEnd) ==
    [k \in 1..EntryCount(buffer, directoryEnd) |-> ReadEntry(buffer, EntryOffset(k - 1))]

\* The body of directoryEntries.forEach raises when one of its two views does.
FieldThrows(buffer, baseAddress, entry) ==
    ViewThrows(buffer, Add(baseAddress, entry.start), entry.length)

\* ExtractField with the bug of taking tag 010 for a control field (<= 10).
ExtractFieldTenIsControl(buffer, baseAddress, entry) ==
    LET fieldStart == Add(baseAddress, entry.start)
        fieldBytes == View(buffer, fieldStart, entry.length)
        last == Add(entry.length, -1)
        effectiveLength ==
            IF ~IsNaN(last) /\ last >= 0 /\ last < Len(fieldBytes)
               /\ fieldBytes[last + 1] = FieldTerminator
            THEN entry.length - 1
            ELSE entry.length
        content == decode(View(buffer, fieldStart, effectiveLength))
    IN  [tag |-> entry.tag, value |-> content,
         isControlField |-> Lt(ParseInt(entry.tag, 10), 11)]

\* ExtractField with the mistake of dropping the last byte whatever it is.
ExtractFieldDropLast(buffer, baseAddress, entry) ==
    LET fieldStart == Add(baseAddress, entry.start)
        fieldBytes == View(buffer, fieldStart, entry.length)
        last == Add(entry.length, -1)
        effectiveLength ==
            IF ~IsNaN(last) /\ last >= 0 /\ last < Len(fieldBytes)
            THEN entry.length - 1
            ELSE entry.length
        content == decode(View(buffer, fieldStart, effectiveLength))
    IN  [tag |-> entry.tag, value |-> content,
         isControlField |-> Lt(ParseInt(entry.tag, 10), 10)]

\* The body of directoryEntries.forEach: {tag, value, isControlField}.
ExtractField(buffer, baseAddress, entry) ==
    LET fieldStart == Add(baseAddress, entry.start)
        fieldBytes == View(buffer, fieldStart, entry.length)
        last == Add(entry.length, -1)
        effectiveLength ==
            IF ~IsNaN(last) /\ last >= 0 /\ last < Len(fieldBytes)
               /\ fieldBytes[last + 1] = FieldTerminator
            THEN entry.length - 1
            ELSE entry.length
        content == decode(View(buffer, fieldStart, effectiveLength))
    IN  [tag |-> entry.tag, value |-> content,
         isControlField |-> Lt(ParseInt(entry.tag, 10), 10)]

\* parseRecord(buffer, decoder): [threw, record].
parseRecord(buffer) ==
    IF ViewThrows(buffer, 0, LeaderLength)
    THEN [threw |-> TRUE, record |-> <<>>]
    ELSE LET leader == decode(View(buffer, 0, LeaderLength))
             baseAddress == ParseInt(Substring(leader, 12, 17), 10)
             directoryEnd == Add(baseAddress, -1)
             entries == directoryEntries(buffer, directoryEnd)
         IN  IF \E k \in 1..Len(entries) : FieldThrows(buffer, baseAddress, entries[k])
             THEN [threw |-> TRUE, record |-> <<>>]
             ELSE [threw |-> FALSE,
                   record |-> [leader |-> leader,
                               fields |-> [k \in 1..Len(entries) |->
                                   processField(ExtractField(buffer, baseAddress, entries[k]))]]]

RECURSIVE ParseLoopZeroLength(_, _, _, _)
\* ParseLoop with the mistake of taking a declared length of 0 for a record
\* (recordLength < 0 for recordLength <= 0).
ParseLoopZeroLength(buffer, offset, records, ranges) ==
    IF ~(offset < Len(buffer)) \/ offset + 5 > Len(buffer)
    THEN [threw |-> FALSE, records |-> records, offset |-> offset, ranges |-> ranges]
    ELSE IF ViewThrows(buffer, offset, LeaderLength)
    THEN [threw |-> TRUE, records |-> <<>>, offset |-> offset, ranges |-> ranges]
    ELSE LET leaderStr == decode(View(buffer, offset, LeaderLength))
             recordLength == ParseInt(Substring(leaderStr, 0, 5), 10)
         IN  IF IsNaN(recordLength) \/ recordLength < 0
             THEN [threw |-> FALSE, records |-> records, offset |-> offset, ranges |-> ranges]
             ELSE IF offset + recordLength > Len(buffer)
             THEN [threw |-> FALSE, records |-> records, offset |-> offset, ranges |-> ranges]
             ELSE LET r == parseRecord(Slice(buffer, offset, offset + recordLength))
                      handed == Append(ranges, <<offset, recordLength>>)
                  IN  IF r.threw
                      THEN [threw |-> TRUE, records |-> <<>>, offset |-> offset, ranges |-> handed]
                      ELSE ParseLoopZeroLength(buffer, offset + recordLength,
                                               Append(records, r.record), handed)

RECURSIVE ParseLoopOpenSlice(_, _, _, _)
\* ParseLoop with the mistake of handing parseRecord the buffer from the
\* offset to its end (buffer.slice(offset)).
ParseLoopOpenSlice(buffer, offset, records, ranges) ==
    IF ~(offset < Len(buffer)) \/ offset + 5 > Len(buffer)
    THEN [threw |-> FALSE, records |-> records, offset |-> offset, ranges |-> ranges]
    ELSE IF ViewThrows(buffer, offset, LeaderLength)
    THEN [threw |-> TRUE, records |-> <<>>, offset |-> offset, ranges |-> ranges]
    ELSE LET leaderStr == decode(View(buffer, offset, LeaderLength))
             recordLength == ParseInt(Substring(leaderStr, 0, 5), 10)
         IN  IF IsNaN(recordLength) \/ recordLength <= 0
             THEN [threw |-> FALSE, records |-> records, offset |-> offset, ranges |-> ranges]
             ELSE IF offset + recordLength > Len(buffer)
             THEN [threw |-> FALSE, records |-> records, offset |-> offset, ranges |-> ranges]
             ELSE LET r == parseRecord(Slice(buffer, offset, Len(buffer)))
                      handed == Append(ranges, <<offset, recordLength>>)
                  IN  IF r.threw
                      THEN [threw |-> TRUE, records |-> <<>>, offset |-> offset, ranges |-> handed]
                      ELSE ParseLoopOpenSlice(buffer, offset + recordLength,
                                              Append(records, r.record), handed)

RECURSIVE ParseLoop(_, _, _, _)
\* The while loop of parse from a scan offset with the records pushed so far:
\* [threw, records, offset, ranges] when it leaves; ranges lists the
\* <<offset, recordLength>> of every record handed to parseRecord.
ParseLoop(buffer, offset, records, ranges) ==
    IF ~(offset < Len(buffer)) \/ offset + 5 > Len(buffer)
    THEN [threw |-> FALSE, records |-> records, offset |-> offset, ranges |-> ranges]
    ELSE IF ViewThrows(buffer, offset, LeaderLength)
    THEN [threw |-> TRUE, records |-> <<>>, offset |-> offset, ranges |-> ranges]
    ELSE LET leaderStr == decode(View(buffer, offset, LeaderLength))
             recordLength == ParseInt(Substring(leaderStr, 0, 5), 10)
         IN  IF IsNaN(recordLength) \/ recordLength <= 0
             THEN [threw |-> FALSE, records |-> records, offset |-> offset, ranges |-> ranges]
             ELSE IF offset + recordLength > Len(buffer)
             THEN [threw |-> FALSE, records |-> records, offset |-> offset, ranges |-> ranges]
             ELSE LET r == parseRecord(Slice(buffer, offset, offset + recordLength))
                      handed == Append(ranges, <<offset, recordLength>>)
                  IN  IF r.threw
                      THEN [threw |-> TRUE, records |-> <<>>, offset |-> offset, ranges |-> handed]
                      ELSE ParseLoop(buffer, offset + recordLength,
                                     Append(records, r.record), handed)

\* parse(buffer)
parse(buffer) == ParseLoop(buffer, 0, <<>>, <<>>)

(***************************************************************************)
(* Inputs                                                                  *)
(***************************************************************************)
MaxRecords == 2
MaxTotalFields == 3
MaxWideRecords == 2
MaxWideFields == 2
MaxTruncFields == 1
MaxPayloadLen == 4
MaxGarbage == 25
NumCallSites == 2
LongLen == 9995
HugeLen == 99995

Tag001 == <<48, 48, 49>>

Tag009 == <<48, 48, 57>>

Tag010 == <<48, 49, 48>>

Tag245 == <<50, 52, 53>>

Tag520 == <<53, 50, 48>>

\* "Nineteen Eighty-Four"
Title1984 ==
    <<78, 105, 110, 101, 116, 101, 101, 110, 32, 69, 105, 103, 104, 116, 121, 45, 70, 111, 117, 114>>

\* The arguments of one buildField call; isText tells whether the caller passes
\* the raw text (a control field) or the subfield list as fourth argument.  A
\* subfield value is written value + 'x'.repeat(fill).
ControlArgs(tag, text) ==
    [tag |-> tag, ind1 |-> <<>>, ind2 |-> <<>>, isText |-> TRUE, text |-> text, subfields |-> <<>>]

DataArgs(tag, ind1, ind2, subfields) ==
    [tag |-> tag, ind1 |-> ind1, ind2 |-> ind2, isText |-> FALSE, text |-> <<>>,
     subfields |-> subfields]

Sub(code, value) == [code |-> code, value |-> value, fill |-> 0]

SubFilled(code, value, fill) == [code |-> code, value |-> value, fill |-> fill]

\* buildField('001', '', '', '12')
Args001 == ControlArgs(Tag001, <<49, 50>>)

\* buildField('009', '', '', 'é1')
Args009 == ControlArgs(Tag009, <<233, 49>>)

\* buildField('010', ' ', '0', [{code:'a', value:'é'}, {code:'x', value:''}])
Args010 == DataArgs(Tag010, <<32>>, <<48>>, <<Sub(<<97>>, <<233>>), Sub(<<120>>, <<>>)>>)

\* buildField('245', '1', '4', [{code:'a', value:'Nineteen Eighty-Four'}])
Args245 == DataArgs(Tag245, <<49>>, <<52>>, <<Sub(<<97>>, Title1984)>>)

\* buildField('520', ' ', ' ', [{code:'a', value:'x'.repeat(LongLen)}])
ArgsLong == DataArgs(Tag520, <<32>>, <<32>>, <<SubFilled(<<97>>, <<>>, LongLen)>>)

\* buildField('520', ' ', ' ', [{code:'a', value:'x'.repeat(HugeLen)}])
ArgsHuge == DataArgs(Tag520, <<32>>, <<32>>, <<SubFilled(<<97>>, <<>>, HugeLen)>>)

FieldArgs == {Args001, Args009, Args010, Args245}

\* The independent call sites of parse and buildRecord.
CallSites == 1..NumCallSites

WideArgs == {ArgsLong, ArgsHuge}

\* The buildField calls of the specifications with oversized fields and with
\* trailing bytes.
WideFieldArgs == {Args001, Args009, Args010, Args245, ArgsLong, ArgsHuge}

TruncFieldArgs == {Args001, Args245}

\* Subfield text that is not delimiter-free: every string over the alphabet
\* {0x1F, 'a', 'b'} of at most MaxPayloadLen characters.
PayloadAlphabet == {SubfieldDelimiter, 97, 98}

PayloadWords == UNION {[1..n -> PayloadAlphabet] : n \in 0..MaxPayloadLen}

\* buildField('245', '1', '4', [{code: w.substring(0, 1), value: w.substring(1)}]):
\* the payload after the two indicators is 0x1F followed by w.
PayloadArgs ==
    {DataArgs(Tag245, <<49>>, <<52>>, <<Sub(Substring(w, 0, 1), SubstringFrom(w, 1))>>) :
        w \in PayloadWords}

\* The indicator arguments a caller may pass: every string of at most two
\* characters over '1', ' ' and 'é' (the script itself passes '' for 001).
IndicatorAlphabet == {49, 32, 233}

IndicatorWords == UNION {[1..n -> IndicatorAlphabet] : n \in 0..2}

\* buildField('245', ind1, ind2, [{code: 'a', value: 'b'}])
IndicatorArgs ==
    {DataArgs(Tag245, ind1, ind2, <<Sub(<<97>>, <<98>>)>>) :
        ind1 \in IndicatorWords, ind2 \in IndicatorWords}

\* The tags a caller may pass: every string of three characters over '0',
\* '1', '9', 'a' and 'x', and "LDR".
TagAlphabet == {48, 49, 57, 97, 120}

TagLDR == <<76, 68, 82>>

TagWords == [1..3 -> TagAlphabet] \cup {TagLDR}

\* buildField(tag, '1', '4', [{code: 'a', value: 'b'}]) or
\* buildField(tag, '', '', '12'): the caller passes the fourth argument in the
\* form buildField reads for that tag.
TagArgs ==
    {IF Ge(ParseInt(tag, 0), 10)
     THEN DataArgs(tag, <<49>>, <<52>>, <<Sub(<<97>>, <<98>>)>>)
     ELSE ControlArgs(tag, <<49, 50>>) : tag \in TagWords}

\* The value of a subfield argument.
ValueOf(sf) == sf.value \o Repeat(120, sf.fill)

\* The buildField call a caller makes with these arguments.
BuildFromArgs(a) ==
    buildField(a.tag, a.ind1, a.ind2,
               IF a.isText THEN a.text
               ELSE [j \in 1..Len(a.subfields) |->
                        [code |-> a.subfields[j].code, value |-> ValueOf(a.subfields[j])]])

\* Trailing bytes of a truncated or corrupted export: the first len bytes of a
\* five-byte head followed by filler bytes.
GarbageHeads ==
    { <<120, 121, 122, 120, 121>>,
      <<57, 57, 57, 57, 57>>,
      <<48, 48, 48, 48, 48>>,
      <<45, 48, 48, 51, 48>>,
      <<48, 48, 48, 49, 48>> }

Garbage(head, len) == SubSeq(head \o Repeat(FieldTerminator, len), 1, len)

\* A record written by another exporter, as it may be appended to the file:
\* the way it writes a fixed-width number.  "zero" is the encoder's own
\* zero padding; the others are "   53", "+0053" and "53aaa".
NumberForms == {"zero", "space", "plus", "alpha"}

WriteNumber(n, width, form) ==
    IF form = "space" THEN Repeat(32, width - Len(ToStr(n))) \o ToStr(n)
    ELSE IF form = "plus" THEN <<43>> \o PadStart(ToStr(n), width - 1)
    ELSE IF form = "alpha" THEN ToStr(n) \o Repeat(97, width - Len(ToStr(n)))
    ELSE PadStart(ToStr(n), width)

\* The data block of a foreign record: '12' 0x1E '14' 0x1F 'ab' 0x1E.
ForeignData == <<49, 50, FieldTerminator, 49, 52, SubfieldDelimiter, 97, 98, FieldTerminator>>

ForeignEntry(tag, length, start) == [tag |-> tag, length |-> length, start |-> start]

\* The directories a foreign record may carry over that data block: in data
\* order, in reverse order, twice the same tag, lengths that leave out the
\* terminator, one entry spanning both fields (as data and as control field),
\* and an entry of length 0.
ForeignLayouts ==
    { <<ForeignEntry(Tag001, 3, 0), ForeignEntry(Tag245, 6, 3)>>,
      <<ForeignEntry(Tag245, 6, 3), ForeignEntry(Tag001, 3, 0)>>,
      <<ForeignEntry(Tag245, 6, 3), ForeignEntry(Tag245, 6, 3)>>,
      <<ForeignEntry(Tag001, 2, 0), ForeignEntry(Tag245, 5, 3)>>,
      <<ForeignEntry(Tag245, 9, 0)>>,
      <<ForeignEntry(Tag001, 9, 0)>>,
      <<ForeignEntry(Tag001, 0, 0), ForeignEntry(Tag245, 6, 3)>> }

\* The byte a foreign record ends its directory with.
ForeignDirectoryEnds == {FieldTerminator, 32}

RECURSIVE ForeignDirectory(_, _, _)
ForeignDirectory(entries, lengthForm, startForm) ==
    IF entries = <<>> THEN <<>>
    ELSE Head(entries).tag \o WriteNumber(Head(entries).length, 4, lengthForm)
         \o WriteNumber(Head(entries).start, 5, startForm)
         \o ForeignDirectory(Tail(entries), lengthForm, startForm)

\* The bytes of a foreign record: leader, directory, data, record terminator.
ForeignRecord(layout, directoryEnd, lenForm, baseForm, lengthForm, startForm) ==
    LET directory == ForeignDirectory(layout, lengthForm, startForm) \o <<directoryEnd>>
        baseAddress == LeaderLength + Len(directory)
        totalLength == baseAddress + Len(ForeignData) + 1
    IN  WriteNumber(totalLength, 5, lenForm) \o LeaderMiddle
        \o WriteNumber(baseAddress, 5, baseForm) \o LeaderTail
        \o directory \o ForeignData \o <<RecordTerminator>>

\* The forms of the four numbers of a foreign record (total length, base
\* address, entry length, entry start): at most one is not zero-padded.
ForeignNumbers == {"len", "base", "length", "start"}

ForeignForms ==
    {f \in [ForeignNumbers -> NumberForms] :
        \A p, q \in ForeignNumbers : (f[p] # "zero" /\ f[q] # "zero") => p = q}

ForeignRecords ==
    {ForeignRecord(layout, directoryEnd, f["len"], f["base"], f["length"], f["start"]) :
        layout \in ForeignLayouts, directoryEnd \in ForeignDirectoryEnds, f \in ForeignForms}

\* A malformed record, as a damaged or hostile file may hold it.  Its directory
\* may list a field that runs past the record, may carry filler bytes before
\* its terminator, its leader may declare a base address that is not the end
\* of the directory and may hold bytes that are not ASCII, and more bytes may
\* follow the record.
MalformedLayouts ==
    { <<ForeignEntry(Tag001, 3, 0), ForeignEntry(Tag245, 6, 3)>>,
      <<ForeignEntry(Tag001, 3, 0), ForeignEntry(Tag245, 8, 3)>>,
      <<ForeignEntry(Tag001, 3, 0), ForeignEntry(Tag245, 6, 50)>> }

\* The bytes between the last directory entry and the directory terminator.
MalformedFillers == { <<>>, <<32, 32, 32, 32, 32>> }

\* What the declared base address adds to the end of the directory.
MalformedBaseShifts == {0 - EntryLength, 0, 5}

\* Leader bytes written over the template, as <<position, byte>>: none, or a
\* UTF-8 continuation byte at byte 10 and the encoding level '1' at byte 17.
MalformedLeaderPatches == { <<>>, << <<10, 128>>, <<17, 49>> >> }

\* The bytes that follow the record in the file: none, or a well-formed record.
MalformedTails ==
    { <<>>,
      ForeignRecord(<<ForeignEntry(Tag001, 3, 0), ForeignEntry(Tag245, 6, 3)>>,
                    FieldTerminator, "zero", "zero", "zero", "zero") }

\* buffer with the bytes of a patch written at their positions (from 0).
Patched(buffer, patch) ==
    [p \in 1..Len(buffer) |->
        IF \E j \in 1..Len(patch) : patch[j][1] = p - 1
        THEN patch[CHOOSE j \in 1..Len(patch) : patch[j][1] = p - 1][2]
        ELSE buffer[p]]

MalformedRecord(layout, filler, baseShift, patch, tail) ==
    LET directory == ForeignDirectory(layout, "zero", "zero") \o filler \o <<FieldTerminator>>
        baseAddress == LeaderLength + Len(directory)
        totalLength == baseAddress + Len(ForeignData) + 1
        leader == PadStart(ToStr(totalLength), 5) \o LeaderMiddle
                  \o PadStart(ToStr(baseAddress + baseShift), 5) \o LeaderTail
    IN  Patched(leader, patch) \o directory \o ForeignData \o <<RecordTerminator>> \o tail

MalformedRecords ==
    {MalformedRecord(layout, filler, baseShift, patch, tail) :
        layout \in MalformedLayouts, filler \in MalformedFillers,
        baseShift \in MalformedBaseShifts, patch \in MalformedLeaderPatches,
        tail \in MalformedTails}

(***************************************************************************)
(* State                                                                   *)
(***************************************************************************)
VARIABLES
    inputs,    \* per record, the arguments of the buildField calls in `records`
    garbage,   \* the bytes that follow the written records in the file
    parsed,    \* the outcome of parser.parse(arrayBuffer)
    pc,        \* "build", "written" or "parsed"
    calls      \* per call site, the locals of its running parse or buildRecord call

vars == <<inputs, garbage, parsed, pc, calls>>

\* const records = [[buildField(...), ...], ...]
records == [i \in 1..Len(inputs) |-> [k \in 1..Len(inputs[i]) |-> BuildFromArgs(inputs[i][k])]]

\* The bytes of data/test.mrc: Buffer.concat(records.map(buildRecord)) once
\* written, followed by what was appended to the file.
fileData == IF pc = "build" THEN <<>> ELSE ConcatRecords(records) \o garbage

NoResult == [threw |-> FALSE, records |-> <<>>, offset |-> 0, ranges |-> <<>>]

\* The locals of a call at a call site.  pc is the place the call has
\* reached and arg the caller's handle on its argument: 0 for the file, i for
\* the i-th field list or its encoding.
IdleFrame == [pc |-> "idle"]

\* parse(buffer): const records = []; let offset = 0.  ranges and threw record
\* what the call did.
ParseFrame(arg, buffer) ==
    [pc |-> "loop", arg |-> arg, buffer |-> buffer,
     offset |-> 0, records |-> <<>>, ranges |-> <<>>, threw |-> FALSE]

\* buildRecord(fields): directory, data, the forEach index k, currentOffset
\* and the buffer returned.
BuildFrame(arg, fields) ==
    [pc |-> "data", arg |-> arg, fields |-> fields,
     k |-> 0, directory |-> <<>>, data |-> <<>>, currentOffset |-> 0, result |-> <<>>]

NoCalls == [c \in CallSites |-> IdleFrame]

Init ==
    /\ inputs = <<>>
    /\ garbage = <<>>
    /\ parsed = NoResult
    /\ pc = "build"
    /\ calls = NoCalls

RECURSIVE TotalFields(_)
TotalFields(recs) == IF recs = <<>> THEN 0 ELSE Len(Head(recs)) + TotalFields(Tail(recs))

\* A new, still empty, field list is started in `records`.
NewRecordUpTo(maxRecords) ==
    /\ pc = "build"
    /\ Len(inputs) < maxRecords
    /\ inputs' = Append(inputs, <<>>)
    /\ UNCHANGED <<garbage, parsed, pc, calls>>

\* buildField(...) is appended to the last field list.
AddFieldFrom(args, maxFields) ==
    /\ pc = "build"
    /\ inputs # <<>>
    /\ TotalFields(inputs) < maxFields
    /\ \E a \in args : inputs' = [inputs EXCEPT ![Len(inputs)] = Append(@, a)]
    /\ UNCHANGED <<garbage, parsed, pc, calls>>

NewRecord == NewRecordUpTo(MaxRecords)

AddField == AddFieldFrom(FieldArgs, MaxTotalFields)

NewRecordWide == NewRecordUpTo(MaxWideRecords)

AddFieldWide == AddFieldFrom(WideFieldArgs, MaxWideFields)

AddFieldTrunc == AddFieldFrom(TruncFieldArgs, MaxTruncFields)

\* fileData = Buffer.concat(records.map(buildRecord)); fs.writeFileSync(...)
WriteFile ==
    /\ pc = "build"
    /\ pc' = "written"
    /\ UNCHANGED <<inputs, garbage, parsed, calls>>

\* The export is cut short or extended: bytes follow the last complete record.
AppendGarbage ==
    /\ pc = "written"
    /\ garbage = <<>>
    /\ \E head \in GarbageHeads, len \in 1..MaxGarbage : garbage' = Garbage(head, len)
    /\ UNCHANGED <<inputs, parsed, pc, calls>>

\* A record of another exporter is appended to the file.
AppendForeign ==
    /\ pc = "written"
    /\ garbage = <<>>
    /\ \E r \in ForeignRecords : garbage' = r
    /\ UNCHANGED <<inputs, parsed, pc, calls>>

\* A malformed record, and what follows it, is appended to the file.
AppendMalformed ==
    /\ pc = "written"
    /\ garbage = <<>>
    /\ \E r \in MalformedRecords : garbage' = r
    /\ UNCHANGED <<inputs, parsed, pc, calls>>

\* records = parser.parse(arrayBuffer)
ReadAndParse ==
    /\ pc = "written"
    /\ parsed' = parse(fileData)
    /\ pc' = "parsed"
    /\ UNCHANGED <<inputs, garbage, calls>>

\* The buffer or field list a caller passes: its own copy of the argument.
BufferOf(arg) == IF arg = 0 THEN fileData ELSE buildRecord(records[arg])

\* const records = [] of the call running at call site c, with the mistake
\* of one array shared by all calls.
RecordsShared(c) ==
    IF calls[1].pc \in {"loop", "returned"} THEN calls[1].records ELSE calls[c].records

\* const records = [] of the call running at call site c: local to the call.
RecordsOf(c) == calls[c].records

\* One pass of the while loop of parse on the locals of a call, `pushed`
\* being its records array: the loop leaves (pc "returned") or goes on.
ParseIteration(frame, pushed) ==
    LET buffer == frame.buffer
        offset == frame.offset
    IN  IF ~(offset < Len(buffer)) \/ offset + 5 > Len(buffer)
        THEN [frame EXCEPT !.pc = "returned", !.records = pushed]
        ELSE IF ViewThrows(buffer, offset, LeaderLength)
        THEN [frame EXCEPT !.pc = "returned", !.threw = TRUE, !.records = <<>>]
        ELSE LET leaderStr == decode(View(buffer, offset, LeaderLength))
                 recordLength == ParseInt(Substring(leaderStr, 0, 5), 10)
             IN  IF IsNaN(recordLength) \/ recordLength <= 0
                 THEN [frame EXCEPT !.pc = "returned", !.records = pushed]
                 ELSE IF offset + recordLength > Len(buffer)
                 THEN [frame EXCEPT !.pc = "returned", !.records = pushed]
                 ELSE LET r == parseRecord(Slice(buffer, offset, offset + recordLength))
                          handed == Append(frame.ranges, <<offset, recordLength>>)
                      IN  IF r.threw
                          THEN [frame EXCEPT !.pc = "returned", !.threw = TRUE,
                                             !.records = <<>>, !.ranges = handed]
                          ELSE [frame EXCEPT !.offset = offset + recordLength,
                                             !.records = Append(pushed, r.record),
                                             !.ranges = handed]

\* One pass of the first forEach of buildRecord, or its end.
BuildDataStep(frame) ==
    IF frame.k < Len(frame.fields)
    THEN [frame EXCEPT !.data = @ \o enc(frame.fields[frame.k + 1].content), !.k = @ + 1]
    ELSE [frame EXCEPT !.pc = "directory", !.k = 0, !.currentOffset = 0]

\* BuildDirectoryStep with the mistake of consuming the caller's list
\* (f = fields.shift()) instead of iterating over it.
BuildDirectoryStepShift(frame) ==
    IF frame.k < Len(frame.fields)
    THEN LET f == frame.fields[1]
         IN  [frame EXCEPT !.directory = @ \o DirectoryEntry(f, frame.currentOffset),
                           !.currentOffset = @ + Len(enc(f.content)),
                           !.fields = Tail(@)]
    ELSE LET directory == frame.directory \o enc(<<FieldTerminator>>)
             baseAddress == LeaderLength + Len(directory)
             totalLength == baseAddress + Len(frame.data) + 1
             leader == PadStart(ToStr(totalLength), 5) \o LeaderMiddle
                       \o PadStart(ToStr(baseAddress), 5) \o LeaderTail
         IN  [frame EXCEPT !.pc = "built", !.directory = directory,
                           !.result = enc(leader) \o directory \o frame.data
                                      \o enc(<<RecordTerminator>>)]

\* One pass of the second forEach of buildRecord, or what follows it: the
\* directory terminator, the leader and the returned buffer.
BuildDirectoryStep(frame) ==
    IF frame.k < Len(frame.fields)
    THEN LET f == frame.fields[frame.k + 1]
         IN  [frame EXCEPT !.directory = @ \o DirectoryEntry(f, frame.currentOffset),
                           !.currentOffset = @ + Len(enc(f.content)),
                           !.k = @ + 1]
    ELSE LET directory == frame.directory \o enc(<<FieldTerminator>>)
             baseAddress == LeaderLength + Len(directory)
             totalLength == baseAddress + Len(frame.data) + 1
             leader == PadStart(ToStr(totalLength), 5) \o LeaderMiddle
                       \o PadStart(ToStr(baseAddress), 5) \o LeaderTail
         IN  [frame EXCEPT !.pc = "built", !.directory = directory,
                           !.result = enc(leader) \o directory \o frame.data
                                      \o enc(<<RecordTerminator>>)]

\* A call site calls parser.parse on the file or on one encoded record.
CallParse ==
    /\ pc = "written"
    /\ \E c \in CallSites, arg \in 0..Len(inputs) :
         /\ calls[c].pc = "idle"
         /\ calls' = [calls EXCEPT ![c] = ParseFrame(arg, BufferOf(arg))]
    /\ UNCHANGED <<inputs, garbage, parsed, pc>>

\* A running parse call makes one pass of its loop.
ParseIterate ==
    /\ \E c \in CallSites :
         /\ calls[c].pc = "loop"
         /\ calls' = [calls EXCEPT ![c] = ParseIteration(calls[c], RecordsOf(c))]
    /\ UNCHANGED <<inputs, garbage, parsed, pc>>

\* A call site calls buildRecord on one of the field lists.
CallBuildRecord ==
    /\ pc = "written"
    /\ \E c \in CallSites, arg \in 1..Len(inputs) :
         /\ calls[c].pc = "idle"
         /\ calls' = [calls EXCEPT ![c] = BuildFrame(arg, records[arg])]
    /\ UNCHANGED <<inputs, garbage, parsed, pc>>

\* A running buildRecord call makes one pass of its first loop.
BuildData ==
    /\ \E c \in CallSites :
         /\ calls[c].pc = "data"
         /\ calls' = [calls EXCEPT ![c] = BuildDataStep(calls[c])]
    /\ UNCHANGED <<inputs, garbage, parsed, pc>>

\* A running buildRecord call makes one pass of its second loop, or returns.
BuildDirectory ==
    /\ \E c \in CallSites :
         /\ calls[c].pc = "directory"
         /\ calls' = [calls EXCEPT ![c] = BuildDirectoryStep(calls[c])]
    /\ UNCHANGED <<inputs, garbage, parsed, pc>>

\* The caller has taken the value returned; its call site is free again.
Return ==
    /\ \E c \in CallSites :
         /\ calls[c].pc \in {"returned", "built"}
         /\ calls' = [calls EXCEPT ![c] = IdleFrame]
    /\ UNCHANGED <<inputs, garbage, parsed, pc>>

Next == NewRecord \/ AddField \/ WriteFile \/ ReadAndParse

Spec == Init /\ [][Next]_vars

NextWide == NewRecordWide \/ AddFieldWide \/ WriteFile \/ ReadAndParse

SpecWide == Init /\ [][NextWide]_vars

NextTrunc == NewRecord \/ AddFieldTrunc \/ WriteFile \/ AppendGarbage \/ ReadAndParse

SpecTrunc == Init /\ [][NextTrunc]_vars

\* One record of one data field whose subfield text is any payload word.
InitPayload ==
    /\ \E a \in PayloadArgs : inputs = <<<<a>>>>
    /\ garbage = <<>>
    /\ parsed = NoResult
    /\ pc = "build"
    /\ calls = NoCalls

NextPayload == WriteFile \/ ReadAndParse

SpecPayload == InitPayload /\ [][NextPayload]_vars

\* The file holds what was written followed by one foreign record.
NextForeign == NewRecord \/ AddFieldTrunc \/ WriteFile \/ AppendForeign \/ ReadAndParse

SpecForeign == Init /\ [][NextForeign]_vars

\* The file holds what was written followed by one malformed record.
NextMalformed == NewRecord \/ AddFieldTrunc \/ WriteFile \/ AppendMalformed \/ ReadAndParse

SpecMalformed == Init /\ [][NextMalformed]_vars

\* The field lists and the trailing bytes of the file the call sites work on.
CallInputs == { <<<<Args001, Args245>>, <<Args010>>>>, <<<<Args009>>>> }

CallGarbage == { <<>>, <<120, 121, 122, 120, 121>> }

InitCalls ==
    /\ inputs \in CallInputs
    /\ garbage \in CallGarbage
    /\ parsed = NoResult
    /\ pc = "written"
    /\ calls = NoCalls

NextCalls ==
    CallParse \/ ParseIterate \/ CallBuildRecord \/ BuildData \/ BuildDirectory \/ Return

SpecCalls == InitCalls /\ [][NextCalls]_vars

\* One record of a control field, a data field whose subfield text is any
\* payload word, and another data field.
InitRecovery ==
    /\ \E a \in PayloadArgs : inputs = <<<<Args001, a, Args010>>>>
    /\ garbage = <<>>
    /\ parsed = NoResult
    /\ pc = "build"
    /\ calls = NoCalls

SpecRecovery == InitRecovery /\ [][NextPayload]_vars

\* One record of one field: a data field with any indicator arguments, or one
\* of the fields of Spec.
InitIndicators ==
    /\ \E a \in IndicatorArgs \cup FieldArgs : inputs = <<<<a>>>>
    /\ garbage = <<>>
    /\ parsed = NoResult
    /\ pc = "build"
    /\ calls = NoCalls

SpecIndicators == InitIndicators /\ [][NextPayload]_vars

\* One record of one field of any tag.
InitTags ==
    /\ \E a \in TagArgs : inputs = <<<<a>>>>
    /\ garbage = <<>>
    /\ parsed = NoResult
    /\ pc = "build"
    /\ calls = NoCalls

SpecTags == InitTags /\ [][NextPayload]_vars

(***************************************************************************)
(* Properties                                                              *)
(***************************************************************************)
RecordCount == Len(inputs)

\* The bytes buildRecord returns for the i-th field list.
Encoded(i) == buildRecord(records[i])

\* What the claims call a printable, delimiter-free character.
Printable(c) == c >= 32 /\ c # 127

AllPrintable(str) == \A j \in 1..Len(str) : Printable(str[j])

\* The precondition of the round trip on one buildField call.
RoundTripArgs(a) ==
    /\ Len(a.tag) = 3
    /\ \A j \in 1..3 : IsDigit(a.tag[j])
    /\ IF a.isText
       THEN AllPrintable(a.text)
       ELSE /\ Len(a.ind1) = 1 /\ AllPrintable(a.ind1)
            /\ Len(a.ind2) = 1 /\ AllPrintable(a.ind2)
            /\ \A j \in 1..Len(a.subfields) :
                 /\ Len(a.subfields[j].code) = 1
                 /\ AllPrintable(a.subfields[j].code)
                 /\ AllPrintable(a.subfields[j].value)

\* The field a caller expects back for one buildField call.
ExpectedField(a) ==
    IF a.isText
    THEN [tag |-> a.tag, text |-> a.text]
    ELSE [tag |-> a.tag, ind1 |-> a.ind1, ind2 |-> a.ind2,
          subfields |-> [j \in 1..Len(a.subfields) |->
                            [code |-> a.subfields[j].code, data |-> ValueOf(a.subfields[j])]]]

\* The fields decoded for record i are those the caller encoded.
DecodesToInputs(i) ==
    /\ Len(parsed.records[i].fields) = Len(inputs[i])
    /\ \A k \in 1..Len(inputs[i]) : parsed.records[i].fields[k] = ExpectedField(inputs[i][k])

\* C1: a record built from 3-digit tags, one-character indicators and codes and
\* printable delimiter-free text is decoded by parse to exactly one record with
\* the same tags, indicators and (code, data) pairs, in order.
C1_RoundTrip ==
    (/\ pc = "parsed"
     /\ garbage = <<>>
     /\ RecordCount = 1
     /\ \A k \in 1..Len(inputs[1]) : RoundTripArgs(inputs[1][k]))
    => (/\ ~parsed.threw
        /\ Len(parsed.records) = 1
        /\ DecodesToInputs(1))

\* C2: parse of the concatenation of N encoded records returns exactly N
\* records, the i-th being the decoding of the i-th encoded record.
C2_StreamConcatenation ==
    (pc = "parsed" /\ garbage = <<>>)
    => (/\ ~parsed.threw
        /\ Len(parsed.records) = RecordCount
        /\ \A i \in 1..RecordCount :
             /\ ~parseRecord(Encoded(i)).threw
             /\ parsed.records[i] = parseRecord(Encoded(i)).record)

\* C3: M complete records followed by 1 to 23 bytes of trailing garbage decode
\* to exactly the M records, and parse does not raise.
C3_TruncationTolerance ==
    (pc = "parsed" /\ Len(garbage) >= 1 /\ Len(garbage) < LeaderLength)
    => (/\ ~parsed.threw
        /\ Len(parsed.records) = RecordCount
        /\ \A i \in 1..RecordCount : DecodesToInputs(i))

\* The first five bytes at the garbage are no positive integer, or declare a
\* record that runs past the end of the buffer.
BadLeaderAtGarbage ==
    LET n == ParseInt(decode(SubSeq(garbage, 1, 5)), 10)
    IN  /\ Len(garbage) >= 5
        /\ (IsNaN(n) \/ n <= 0 \/ n > Len(garbage))

\* C4: when the five length bytes at the scan offset are no positive integer or
\* the declared record runs past the buffer, parse stops at that offset and
\* returns the records decoded before it, without raising.
C4_FailSoftStop ==
    (pc = "parsed" /\ BadLeaderAtGarbage)
    => (/\ ~parsed.threw
        /\ parsed.offset = Len(fileData) - Len(garbage)
        /\ Len(parsed.records) = RecordCount)

\* The running data offset of the k-th field of a field list.
StartOf(fields, k) == Len(DataBlock(SubSeq(fields, 1, k - 1)))

\* A field list with a field of 10,000 bytes or more, or a field starting at
\* offset 100,000 or beyond.
WidthOverflow(fields) ==
    \E k \in 1..Len(fields) :
        \/ Len(enc(fields[k].content)) >= 10000
        \/ StartOf(fields, k) >= 100000

RECURSIVE WithoutOverflow(_)
WithoutOverflow(recs) ==
    IF recs = <<>> THEN <<>>
    ELSE IF WidthOverflow(Head(recs)) THEN WithoutOverflow(Tail(recs))
    ELSE <<Head(recs)>> \o WithoutOverflow(Tail(recs))

\* C5: a field list that overflows the directory widths produces no record
\* bytes, and every directory written has 12 bytes per field.
C5_WidthOverflowIsHardError ==
    (pc = "written" /\ garbage = <<>>)
    => (/\ fileData = ConcatRecords(WithoutOverflow(records))
        /\ \A i \in 1..RecordCount :
             WidthOverflow(records[i])
             \/ Len(Directory(records[i], 0)) = EntryLength * Len(records[i]))

\* The number written in bytes [from, to) of a buffer.
NumberAt(buffer, from, to) == ParseInt(decode(Slice(buffer, from, to)), 10)

\* C6: bytes 0-4 of every buildRecord output hold its exact byte length.
C6_LeaderLengthIsExact ==
    (pc = "written")
    => \A i \in 1..RecordCount : NumberAt(Encoded(i), 0, 5) = Len(Encoded(i))

\* C7: bytes 12-16 of every buildRecord output hold 24 + 12 n + 1, the byte
\* before the base address is the directory terminator and the first field's
\* data starts at the base address.
C7_BaseAddress ==
    (pc = "written")
    => \A i \in 1..RecordCount :
         LET out == Encoded(i)
             base == LeaderLength + EntryLength * Len(records[i]) + 1
         IN  /\ NumberAt(out, 12, 17) = base
             /\ out[base] = FieldTerminator
             /\ Len(records[i]) > 0 =>
                  LET first == enc(records[i][1].content)
                  IN  Slice(out, base, base + Len(first)) = first


\* The bytes of the i-th record parse handed to parseRecord.
RecordBytes(i) == Slice(fileData, parsed.ranges[i][1], parsed.ranges[i][1] + parsed.ranges[i][2])

\* The k-th directory entry of the i-th record as the decoder reads it.
EntryOf(i, k) == ReadEntry(RecordBytes(i), EntryOffset(k - 1))

\* The payload of the k-th directory entry of the i-th record: the bytes at
\* [baseAddress + start, baseAddress + start + length) without the field
\* terminator that ends them, as text.
PayloadText(i, k) ==
    LET rec == RecordBytes(i)
        e == EntryOf(i, k)
        bytes == View(rec, Add(NumberAt(rec, 12, 17), e.start), e.length)
    IN  decode(IF Len(bytes) > 0 /\ bytes[Len(bytes)] = FieldTerminator
               THEN SubSeq(bytes, 1, Len(bytes) - 1)
               ELSE bytes)

\* C8: a directory entry whose tag is numerically below 10 decodes to a field of
\* tag and text only, the text being the payload without its terminator; an
\* entry whose tag is 10 or more decodes to a field of tag, ind1, ind2 and
\* subfields, without text.
C8_ControlVsData ==
    (pc = "parsed" /\ ~parsed.threw)
    => \A i \in 1..Len(parsed.records) :
         \A k \in 1..Len(parsed.records[i].fields) :
            LET f == parsed.records[i].fields[k]
                e == EntryOf(i, k)
                v == ParseInt(e.tag, 10)
            IN  /\ f.tag = e.tag
                /\ Lt(v, 10) => (DOMAIN f = {"tag", "text"} /\ f.text = PayloadText(i, k))
                /\ Ge(v, 10) => DOMAIN f = {"tag", "ind1", "ind2", "subfields"}

\* C8 witness: a decoded record holds a control field 009 with its text and a
\* data field 010.
C8_Witness ==
    /\ pc = "parsed"
    /\ ~parsed.threw
    /\ \E i \in 1..Len(parsed.records) :
         \E k, m \in 1..Len(parsed.records[i].fields) :
            /\ parsed.records[i].fields[k] = [tag |-> Tag009, text |-> <<233, 49>>]
            /\ parsed.records[i].fields[m].tag = Tag010
            /\ "subfields" \in DOMAIN parsed.records[i].fields[m]

\* A field list whose lengths and offsets fit the fixed widths of the directory
\* and the leader.
Representable(fields) ==
    /\ ~WidthOverflow(fields)
    /\ LeaderLength + EntryLength * Len(fields) + 1 + Len(DataBlock(fields)) + 1 < 100000

\* The field of the concrete scenario, decoded.
Decoded245 ==
    [tag |-> Tag245, ind1 |-> <<49>>, ind2 |-> <<52>>,
     subfields |-> <<[code |-> <<97>>, data |-> Title1984]>>]

\* C9: buildField('245','1','4',[{code:'a', value:'Nineteen Eighty-Four'}]) in a
\* record of well-formed fields decodes to tag 245, ind1 1, ind2 4 and the one
\* subfield (a, Nineteen Eighty-Four), whatever precedes or follows it.
C9_ConcreteScenario ==
    (/\ pc = "parsed"
     /\ garbage = <<>>
     /\ \A i \in 1..RecordCount :
          /\ Representable(records[i])
          /\ \A k \in 1..Len(inputs[i]) : RoundTripArgs(inputs[i][k]))
    => \A i \in 1..RecordCount :
         \A k \in 1..Len(inputs[i]) :
            inputs[i][k] = Args245
            => (/\ ~parsed.threw
                /\ Len(parsed.records) >= i
                /\ Len(parsed.records[i].fields) >= k
                /\ parsed.records[i].fields[k] = Decoded245)

\* C9 witness: the 245 field is decoded between two other fields.
C9_Witness ==
    /\ pc = "parsed"
    /\ \E i \in 1..RecordCount :
         /\ Len(inputs[i]) = 3
         /\ inputs[i][1] = Args009
         /\ inputs[i][2] = Args245
         /\ inputs[i][3] = Args010
         /\ parsed.records[i].fields[2] = Decoded245

\* The first element of a list, as a list of at most one element.
FirstOf(seq) == IF seq = <<>> THEN <<>> ELSE <<seq[1]>>

\* The text of a data field after its two indicators.
AfterIndicators(i, k) == SubstringFrom(PayloadText(i, k), 2)

\* The first subfield of a text that begins with the delimiter: the code is the
\* first character that is no delimiter, the data runs to the next delimiter.
\* The empty sequence when every character is a delimiter.
FirstRealSubfield(text) ==
    LET real == {j \in 1..Len(text) : text[j] # SubfieldDelimiter}
    IN  IF real = {} THEN <<>>
        ELSE LET c == CHOOSE j \in real : \A m \in real : j <= m
                 ends == {j \in (c + 1)..Len(text) : text[j] = SubfieldDelimiter} \cup {Len(text) + 1}
                 n == CHOOSE j \in ends : \A m \in ends : j <= m
             IN  <<[code |-> <<text[c]>>, data |-> SubSeq(text, c + 1, n - 1)]>>

\* C10: when the text after the two indicators begins with the delimiter, no
\* decoded subfield has an empty code and the first decoded subfield is the one
\* that follows that delimiter.
C10_EmptySubfieldSkip ==
    (pc = "parsed" /\ ~parsed.threw)
    => \A i \in 1..Len(parsed.records) :
         \A k \in 1..Len(parsed.records[i].fields) :
            LET f == parsed.records[i].fields[k]
                text == AfterIndicators(i, k)
            IN  ("subfields" \in DOMAIN f /\ Len(text) > 0 /\ text[1] = SubfieldDelimiter)
                => (/\ \A j \in 1..Len(f.subfields) : Len(f.subfields[j].code) = 1
                    /\ FirstOf(f.subfields) = FirstRealSubfield(text))

\* C10 witness: a payload of two delimiters followed by a code and data is
\* decoded to that one subfield.
C10_Witness ==
    /\ pc = "parsed"
    /\ ~parsed.threw
    /\ Len(parsed.records) = 1
    /\ Len(parsed.records[1].fields) = 1
    /\ AfterIndicators(1, 1) = <<SubfieldDelimiter, SubfieldDelimiter, 97, 98>>
    /\ parsed.records[1].fields[1].subfields = <<[code |-> <<97>>, data |-> <<98>>]>>

\* No field terminator lies in the directory span [24, baseAddress) of a record.
DirectoryUnterminated(rec) ==
    LET base == NumberAt(rec, 12, 17)
    IN  /\ ~IsNaN(base)
        /\ base > LeaderLength
        /\ \A p \in (LeaderLength + 1)..Min(base, Len(rec)) : rec[p] # FieldTerminator

\* C11: a record whose directory holds no field terminator up to baseAddress-1
\* is detected as invalid: parse does not return a record decoded from it.
C11_DirectoryOverflowDetected ==
    (pc = "parsed")
    => \A i \in 1..Len(parsed.ranges) :
         DirectoryUnterminated(RecordBytes(i))
         => (parsed.threw \/ Len(parsed.records) < i)

\* C12: whatever the other call sites are doing, a parse call returns what
\* parse returns on its buffer alone and leaves the buffer as the caller passed
\* it, a buildRecord call returns what buildRecord returns on its field list
\* alone, and two parse calls on equal buffers return equal record lists.
C12_PurityUnderInterleaving ==
    /\ \A c \in CallSites :
         /\ calls[c].pc \in {"loop", "returned"} => calls[c].buffer = BufferOf(calls[c].arg)
         /\ calls[c].pc = "returned"
            => (/\ calls[c].threw = parse(BufferOf(calls[c].arg)).threw
                /\ calls[c].records = parse(BufferOf(calls[c].arg)).records)
         /\ calls[c].pc = "built"
            => (/\ calls[c].result = buildRecord(records[calls[c].arg])
                /\ calls[c].fields = records[calls[c].arg])
    /\ \A c, d \in CallSites :
         (/\ calls[c].pc = "returned"
          /\ calls[d].pc = "returned"
          /\ calls[c].buffer = calls[d].buffer)
         => (calls[c].records = calls[d].records /\ calls[c].threw = calls[d].threw)

\* C12 witness: a parse call that decoded two records has returned at one call
\* site while a buildRecord call is in its second loop at another.
C12_Witness ==
    \E c, d \in CallSites :
        /\ calls[c].pc = "returned"
        /\ calls[c].arg = 0
        /\ Len(calls[c].records) = 2
        /\ calls[d].pc = "directory"
        /\ calls[d].k = 1

\* The positions (from 1) in the i-th encoded record at which the encoder
\* itself puts a delimiter: the byte after the directory and the last byte of
\* every field (0x1E), the byte before every subfield code (0x1F), and the
\* last byte of the record (0x1D).
DataStart(i) == LeaderLength + Len(Directory(records[i], 0)) + 1

FieldFirst(i, k) == DataStart(i) + StartOf(records[i], k) + 1

RECURSIVE SubfieldStarts(_, _)
SubfieldStarts(subfields, at) ==
    IF subfields = <<>> THEN {}
    ELSE {at} \cup SubfieldStarts(Tail(subfields),
                                  at + 1 + Len(enc(Head(subfields).code))
                                     + Len(enc(ValueOf(Head(subfields)))))

StructuralSubfieldDelimiters(i) ==
    UNION {IF inputs[i][k].isText THEN {}
           ELSE SubfieldStarts(inputs[i][k].subfields,
                               FieldFirst(i, k) + Len(enc(inputs[i][k].ind1 \o inputs[i][k].ind2))) :
           k \in 1..Len(inputs[i])}

StructuralFieldTerminators(i) ==
    {DataStart(i)} \cup {FieldFirst(i, k) + Len(enc(records[i][k].content)) - 1 : k \in 1..Len(inputs[i])}

PositionsOf(buffer, byte) == {p \in 1..Len(buffer) : buffer[p] = byte}

\* C13: in every buildRecord output the 0x1F bytes are exactly those that
\* introduce a subfield code, the 0x1E bytes exactly the one that ends the
\* directory and the ones that end the fields, and 0x1D is the last byte
\* only: nothing the caller supplied shows up as one of these bytes.
C13_DelimitersOnlyStructural ==
    (pc = "written")
    => \A i \in 1..RecordCount :
         /\ PositionsOf(Encoded(i), SubfieldDelimiter) = StructuralSubfieldDelimiters(i)
         /\ PositionsOf(Encoded(i), FieldTerminator) = StructuralFieldTerminators(i)
         /\ PositionsOf(Encoded(i), RecordTerminator) = {Len(Encoded(i))}

\* The number of directory entries parseRecord scans in a record.
ScannedEntries(rec) == EntryCount(rec, Add(NumberAt(rec, 12, 17), -1))

\* C14: the fields of a decoded record are one per directory entry scanned, in
\* directory order, each with its entry's tag; entries of equal tags all stay.
C14_OrderedFieldList ==
    (pc = "parsed" /\ ~parsed.threw)
    => \A i \in 1..Len(parsed.records) :
         /\ Len(parsed.records[i].fields) = ScannedEntries(RecordBytes(i))
         /\ \A k \in 1..Len(parsed.records[i].fields) :
              /\ parsed.records[i].fields[k].tag = EntryOf(i, k).tag
              /\ Len(parsed.records[i].fields[k].tag) = 3

\* C14 witness: a record whose directory lists tag 245 (data at 3) before tag
\* 001 (data at 0) is decoded to the fields 245, 001 in that order.
C14_Witness ==
    /\ pc = "parsed"
    /\ ~parsed.threw
    /\ \E i \in 1..Len(parsed.records) :
         /\ Len(parsed.records[i].fields) = 2
         /\ parsed.records[i].fields[1].tag = Tag245
         /\ parsed.records[i].fields[2].tag = Tag001
         /\ EntryOf(i, 1).start = 3
         /\ EntryOf(i, 2).start = 0

\* Every byte is an ASCII digit.
AllDigits(bytes) == \A j \in 1..Len(bytes) : IsDigit(bytes[j])

\* C15: the decoder takes the five length bytes, the five base-address bytes
\* and each entry's four length and five start bytes for a number only when
\* all of them are ASCII digits: every record handed to parseRecord has an
\* all-digit length, and every record decoded has an all-digit base address
\* and all-digit entries.
C15_StrictNumericParsing ==
    (pc = "parsed")
    => /\ \A i \in 1..Len(parsed.ranges) : AllDigits(Slice(RecordBytes(i), 0, 5))
       /\ \A i \in 1..Len(parsed.records) :
            /\ AllDigits(Slice(RecordBytes(i), 12, 17))
            /\ \A k \in 1..Len(parsed.records[i].fields) :
                 /\ AllDigits(Slice(RecordBytes(i), EntryOffset(k - 1) + 3, EntryOffset(k - 1) + 7))
                 /\ AllDigits(Slice(RecordBytes(i), EntryOffset(k - 1) + 7, EntryOffset(k - 1) + 12))

\* C16: the content of every decoded field is its entry's slice
\* [baseAddress + start, baseAddress + start + length) less its last byte when
\* and only when that byte is 0x1E; every other byte of the slice, a 0x1E
\* among them, is content.
C16_TerminatorStripping ==
    (pc = "parsed" /\ ~parsed.threw)
    => \A i \in 1..Len(parsed.records) :
         \A k \in 1..Len(parsed.records[i].fields) :
            LET f == parsed.records[i].fields[k]
            IN  f = processField([tag |-> EntryOf(i, k).tag,
                                  value |-> PayloadText(i, k),
                                  isControlField |-> "text" \in DOMAIN f])

\* C16 witness: an entry whose slice is '12' 0x1E '14' 0x1F 'ab' 0x1E is decoded
\* to the text '12' 0x1E '14' 0x1F 'ab'.
C16_Witness ==
    /\ pc = "parsed"
    /\ ~parsed.threw
    /\ \E i \in 1..Len(parsed.records) :
         /\ EntryOf(i, 1).length = 9
         /\ EntryOf(i, 1).start = 0
         /\ parsed.records[i].fields[1] =
              [tag |-> Tag001,
               text |-> <<49, 50, FieldTerminator, 49, 52, SubfieldDelimiter, 97, 98>>]

\* The subfields of the chunks after the first: one per non-empty chunk, code
\* its first character, data the rest.
RECURSIVE LaterChunkSubfields(_, _)
LaterChunkSubfields(chunks, from) ==
    IF from > Len(chunks) THEN <<>>
    ELSE LET chunk == chunks[from]
             rest == LaterChunkSubfields(chunks, from + 1)
         IN  IF chunk = <<>> THEN rest
             ELSE << [code |-> << chunk[1] >>, data |-> Tail(chunk)] >> \o rest

\* C17: the text of a data field after its indicators being split on 0x1F,
\* the first chunk gives no subfield, empty or not, and every non-empty later
\* chunk gives exactly one, in order.
C17_FirstChunkYieldsNothing ==
    (pc = "parsed" /\ ~parsed.threw)
    => \A i \in 1..Len(parsed.records) :
         \A k \in 1..Len(parsed.records[i].fields) :
            LET f == parsed.records[i].fields[k]
            IN  "subfields" \in DOMAIN f
                => f.subfields = LaterChunkSubfields(Split(AfterIndicators(i, k)), 2)

RECURSIVE RunsBetweenDelimiters(_, _, _)
\* The non-empty runs of characters between the 0x1F of a text, in order,
\* read character by character from position i, run being the one in progress.
RunsBetweenDelimiters(text, i, run) ==
    LET closed == IF run = <<>> THEN <<>> ELSE <<run>>
    IN  IF i > Len(text) THEN closed
        ELSE IF text[i] = SubfieldDelimiter
             THEN closed \o RunsBetweenDelimiters(text, i + 1, <<>>)
             ELSE RunsBetweenDelimiters(text, i + 1, Append(run, text[i]))

\* The subfields a caller wrote with one buildField subfield argument: the
\* encoder puts 0x1F before code + value, and each non-empty run is a subfield.
WrittenSubfields(a) ==
    LET runs == RunsBetweenDelimiters(a.subfields[1].code \o ValueOf(a.subfields[1]), 1, <<>>)
    IN  [j \in 1..Len(runs) |-> [code |-> <<runs[j][1]>>, data |-> Tail(runs[j])]]

\* C18: a data field whose text holds consecutive or trailing 0x1F is decoded
\* without raising to its other subfields in their order, and the fields
\* before and after it are decoded as written.
C18_LocalRecovery ==
    (pc = "parsed" /\ Len(inputs) = 1 /\ Len(inputs[1]) = 3)
    => (/\ ~parsed.threw
        /\ Len(parsed.records) = 1
        /\ Len(parsed.records[1].fields) = 3
        /\ parsed.records[1].fields[1] = ExpectedField(inputs[1][1])
        /\ parsed.records[1].fields[3] = ExpectedField(inputs[1][3])
        /\ parsed.records[1].fields[2].tag = inputs[1][2].tag
        /\ parsed.records[1].fields[2].ind1 = inputs[1][2].ind1
        /\ parsed.records[1].fields[2].ind2 = inputs[1][2].ind2
        /\ parsed.records[1].fields[2].subfields = WrittenSubfields(inputs[1][2]))

\* C18 witness: the field written 0x1F 'a' 0x1F 0x1F 'b' between two other
\* fields is decoded to the subfields a and b, the empty chunk being skipped.
C18_Witness ==
    /\ pc = "parsed"
    /\ ~parsed.threw
    /\ Len(inputs[1]) = 3
    /\ inputs[1][2].subfields[1].code = <<97>>
    /\ inputs[1][2].subfields[1].value = <<SubfieldDelimiter, SubfieldDelimiter, 98>>
    /\ parsed.records[1].fields[2].subfields =
         <<[code |-> <<97>>, data |-> <<>>], [code |-> <<98>>, data |-> <<>>]>>
    /\ parsed.records[1].fields[3] = ExpectedField(Args010)

\* The number a tag of three digits stands for.
TagNumber(tag) == (tag[1] - 48) * 100 + (tag[2] - 48) * 10 + (tag[3] - 48)

RECURSIVE WrittenSubfieldText(_)
\* 0x1F + code + value for each subfield argument, in the given order.
WrittenSubfieldText(subfields) ==
    IF subfields = <<>> THEN <<>>
    ELSE <<SubfieldDelimiter>> \o Head(subfields).code \o ValueOf(Head(subfields))
         \o WrittenSubfieldText(Tail(subfields))

\* C19: for a tag of value 10 or more the content buildField returns is ind1,
\* ind2, 0x1F + code + value per subfield in order, then 0x1E, and its bytes
\* begin with exactly two indicator bytes before the first 0x1F; for a tag
\* below 10 it is the raw text and 0x1E, whatever ind1 and ind2 are.
C19_BuildFieldLayout ==
    (pc = "written")
    => \A i \in 1..RecordCount :
         \A k \in 1..Len(inputs[i]) :
            LET a == inputs[i][k]
                content == records[i][k].content
                bytes == enc(content)
            IN  /\ records[i][k].tag = a.tag
                /\ TagNumber(a.tag) >= 10
                   => (/\ content = a.ind1 \o a.ind2 \o WrittenSubfieldText(a.subfields)
                                    \o <<FieldTerminator>>
                       /\ a.subfields # <<>>
                          => (/\ Len(bytes) >= 3
                              /\ bytes[1] # SubfieldDelimiter
                              /\ bytes[2] # SubfieldDelimiter
                              /\ bytes[3] = SubfieldDelimiter))
                /\ TagNumber(a.tag) < 10
                   => content = a.text \o <<FieldTerminator>>

\* The length and the start written in the k-th 12-byte directory entry of a
\* record.
WrittenLength(out, k) == NumberAt(out, EntryOffset(k - 1) + 3, EntryOffset(k - 1) + 7)

WrittenStart(out, k) == NumberAt(out, EntryOffset(k - 1) + 7, EntryOffset(k - 1) + 12)

\* C20: in every buildRecord output the k-th directory entry holds the byte
\* length of the k-th field's content, terminator included, and the sum of the
\* lengths before it as start (0 for the first); the lengths add up to the
\* data block, which lies between the base address and the record terminator.
C20_DirectoryTilesData ==
    (pc = "written")
    => \A i \in 1..RecordCount :
         LET out == Encoded(i)
             n == Len(records[i])
             dataLength == Len(out) - NumberAt(out, 12, 17) - 1
         IN  /\ \A k \in 1..n :
                  /\ WrittenLength(out, k) = Len(enc(records[i][k].content))
                  /\ WrittenStart(out, k) = StartOf(records[i], k)
                  /\ k = 1 => WrittenStart(out, k) = 0
                  /\ k > 1 => WrittenStart(out, k) = WrittenStart(out, k - 1) + WrittenLength(out, k - 1)
                  /\ WrittenStart(out, k) + WrittenLength(out, k) <= dataLength
             /\ StartOf(records[i], n + 1) = dataLength
             /\ Slice(out, Len(out) - 1 - dataLength, Len(out) - 1) = DataBlock(records[i])

\* The positions (from 1) of a decoded record at which parseRecord dropped a
\* field terminator: the last byte of an entry's slice when it is 0x1E.
StrippedPositions(i) ==
    LET rec == RecordBytes(i)
        base == NumberAt(rec, 12, 17)
        entries == [k \in 1..Len(parsed.records[i].fields) |-> ReadEntry(rec, EntryOffset(k - 1))]
    IN  {Add(base, entries[k].start) + entries[k].length :
            k \in {j \in 1..Len(entries) :
                     /\ ~IsNaN(entries[j].length)
                     /\ entries[j].length > 0
                     /\ rec[ToIndex(Add(base, entries[j].start)) + entries[j].length]
                        = FieldTerminator}}

\* C21: every buildRecord output is leader, directory, data and record
\* terminator in that order: its last byte is 0x1D, the data block lies right
\* before it and the directory right before the data, what precedes is the
\* leader, the last byte of every field's extent in the data block is 0x1E,
\* and 0x1D differs from 0x1E: decoding the output, the terminators dropped
\* are the last bytes of the fields and never the record terminator.
C21_RecordFraming ==
    (pc = "written" \/ (pc = "parsed" /\ ~parsed.threw))
    => \A i \in 1..RecordCount :
         LET out == Encoded(i)
             n == Len(out)
             data == DataBlock(records[i])
             directory == Directory(records[i], 0) \o <<FieldTerminator>>
             leaderEnd == n - 1 - Len(data) - Len(directory)
         IN  /\ out[n] = RecordTerminator
             /\ RecordTerminator # FieldTerminator
             /\ Slice(out, n - 1 - Len(data), n - 1) = data
             /\ Slice(out, leaderEnd, leaderEnd + Len(directory)) = directory
             /\ leaderEnd >= LeaderLength
             /\ Slice(out, leaderEnd - Len(LeaderTail), leaderEnd) = LeaderTail
             /\ \A p \in 1..leaderEnd :
                  out[p] \notin {SubfieldDelimiter, FieldTerminator, RecordTerminator}
             /\ \A k \in 1..Len(records[i]) :
                  out[leaderEnd + Len(directory) + Len(DataBlock(SubSeq(records[i], 1, k)))]
                  = FieldTerminator
             /\ (pc = "parsed" /\ Len(parsed.records) >= i)
                => LET rec == RecordBytes(i)
                   IN  rec[Len(rec)] = RecordTerminator => Len(rec) \notin StrippedPositions(i)

\* C21 witness: a record of three fields has been written and decoded; each
\* of its three field extents ended with 0x1E, which the decoder dropped.
C21_Witness ==
    /\ pc = "parsed"
    /\ ~parsed.threw
    /\ \E i \in 1..RecordCount :
         /\ Len(records[i]) = 3
         /\ Encoded(i)[Len(Encoded(i))] = RecordTerminator
         /\ Cardinality(StrippedPositions(i)) = 3

\* The scan offset after the first n records handed to parseRecord.
RangeEnd(n) == IF n = 0 THEN 0 ELSE parsed.ranges[n][1] + parsed.ranges[n][2]

\* C22: the scan of parse starts at offset 0 and each record it accepts
\* begins where the one before ended, has the positive length its leader
\* declares and ends inside the buffer; the offset at which the scan ends is
\* the end of the last record decoded and never beyond the buffer: the scan
\* ends on every buffer, one whose leader declares length 0 included.
C22_ScanProgress ==
    (pc = "parsed")
    => /\ \A n \in 1..Len(parsed.ranges) :
            /\ parsed.ranges[n][1] = RangeEnd(n - 1)
            /\ parsed.ranges[n][2] > 0
            /\ parsed.ranges[n][2] = NumberAt(fileData, parsed.ranges[n][1], parsed.ranges[n][1] + 5)
            /\ RangeEnd(n) > RangeEnd(n - 1)
            /\ RangeEnd(n) <= Len(fileData)
       /\ parsed.offset >= 0
       /\ parsed.offset <= Len(fileData)
       /\ parsed.offset = RangeEnd(IF parsed.threw THEN Max(Len(parsed.ranges) - 1, 0)
                                   ELSE Len(parsed.ranges))
          \/ (parsed.threw /\ parsed.offset = RangeEnd(Len(parsed.ranges)))

\* C22 witness: after two records the scan met a leader declaring length 0
\* with a full leader's bytes left, and ended there with the two records.
C22_Witness ==
    /\ pc = "parsed"
    /\ ~parsed.threw
    /\ Len(parsed.records) = 2
    /\ Len(garbage) >= LeaderLength
    /\ NumberAt(garbage, 0, 5) = 0
    /\ parsed.offset = RangeEnd(2)
    /\ parsed.offset = Len(fileData) - Len(garbage)

\* The values leader byte 9 may take: ' ' and 'a' (the format's two encoding
\* indicators), another letter, the first byte of a two-byte UTF-8 character
\* and a UTF-8 continuation byte.
EncodingIndicators == {32, 97, 122, 194, 128}

\* The buffer with byte 9 of the record at an offset set to b.
WithEncodingIndicator(buffer, offset, b) == [buffer EXCEPT ![offset + 10] = b]

\* The field lists of the records a parse call returned.
FieldsOf(result) == [i \in 1..Len(result.records) |-> result.records[i].fields]

\* C23: parse does not look at leader byte 9: whatever byte is put there in
\* any record of the buffer, parse raises or not as before and returns records
\* with the same fields.
C23_EncodingIndicatorIgnored ==
    (pc = "parsed")
    => \A n \in 1..Len(parsed.ranges) :
         \A b \in EncodingIndicators :
            LET other == parse(WithEncodingIndicator(fileData, parsed.ranges[n][1], b))
            IN  /\ other.threw = parsed.threw
                /\ FieldsOf(other) = FieldsOf(parsed)

\* A buffer with every byte of a multi-byte character replaced by 'x': the
\* same record with ASCII field data of the same byte length.
Asciified(buffer) == [p \in 1..Len(buffer) |-> IF buffer[p] >= 128 THEN 120 ELSE buffer[p]]

\* What the decoder reads in the header of a record buffer: the total length
\* (parse), the base address and the directory entries (parseRecord).
HeaderOf(rec) ==
    LET leader == decode(View(rec, 0, LeaderLength))
        baseAddress == ParseInt(Substring(leader, 12, 17), 10)
    IN  [length |-> ParseInt(Substring(leader, 0, 5), 10),
         baseAddress |-> baseAddress,
         entries |-> directoryEntries(rec, Add(baseAddress, -1))]

\* The text a buildField call was given holds a multi-byte character.
HasMultiByte(a) ==
    \/ \E j \in 1..Len(a.text) : a.text[j] >= 128
    \/ \E m \in 1..Len(a.subfields) :
         \E j \in 1..Len(a.subfields[m].value) : a.subfields[m].value[j] >= 128

\* C24: for a record whose leader and directory are pure ASCII, the total
\* length, the base address and every directory entry the decoder reads are
\* those it reads when the field data is ASCII of the same byte length, and a
\* field written with multi-byte characters is found by its byte offset and
\* byte length and decoded to the text it was written with.
C24_HeaderUnaffectedByMultiByte ==
    (pc = "parsed" /\ garbage = <<>>)
    => \A i \in 1..RecordCount :
         LET out == Encoded(i)
         IN  (\A p \in 1..(LeaderLength + Len(Directory(records[i], 0)) + 1) : out[p] < 128)
             => /\ HeaderOf(out) = HeaderOf(Asciified(out))
                /\ \A k \in 1..Len(inputs[i]) :
                     HasMultiByte(inputs[i][k])
                     => (/\ ~parsed.threw
                         /\ Len(parsed.records) >= i
                         /\ Len(parsed.records[i].fields) >= k
                         /\ EntryOf(i, k).length = Len(enc(records[i][k].content))
                         /\ EntryOf(i, k).start = StartOf(records[i], k)
                         /\ parsed.records[i].fields[k] = ExpectedField(inputs[i][k]))

\* C25: the leader of every buildRecord output is exactly 24 bytes: bytes 0-4
\* the total length in five digits, bytes 5-11 "nam a22", bytes 12-16 the base
\* address in five digits, bytes 17-23 " a 4500"; the directory begins at
\* byte 24.
C25_LeaderSynthesis ==
    (pc = "written")
    => \A i \in 1..RecordCount :
         LET out == Encoded(i)
             directory == Directory(records[i], 0) \o <<FieldTerminator>>
             data == DataBlock(records[i])
         IN  /\ Len(out) = LeaderLength + Len(directory) + Len(data) + 1
             /\ AllDigits(Slice(out, 0, 5))
             /\ NumberAt(out, 0, 5) = Len(out)
             /\ Slice(out, 5, 12) = LeaderMiddle
             /\ AllDigits(Slice(out, 12, 17))
             /\ NumberAt(out, 12, 17) = LeaderLength + Len(directory)
             /\ Slice(out, 17, LeaderLength) = LeaderTail
             /\ Slice(out, LeaderLength, LeaderLength + Len(directory)) = directory

\* The call at call site c is a buildRecord call, running or returned.
IsBuildCall(c) == calls[c].pc \in {"data", "directory", "built"}

\* C26: while a buildRecord call runs and after it has returned, the field
\* list it was given, with every tag and content, is the one the caller
\* passed, and the caller's field lists and buildField arguments are the ones
\* it had before the call; two calls on equal field lists return identical
\* bytes.
C26_EncoderFrame ==
    /\ inputs \in CallInputs
    /\ \A c \in CallSites :
         IsBuildCall(c)
         => /\ calls[c].fields = records[calls[c].arg]
            /\ \A k \in 1..Len(calls[c].fields) :
                 calls[c].fields[k] = BuildFromArgs(inputs[calls[c].arg][k])
    /\ \A c, d \in CallSites :
         (/\ calls[c].pc = "built"
          /\ calls[d].pc = "built"
          /\ calls[c].fields = calls[d].fields)
         => calls[c].result = calls[d].result

\* C26 witness: two buildRecord calls on the same list of two fields have
\* both returned.
C26_Witness ==
    \E c, d \in CallSites :
        /\ c # d
        /\ calls[c].pc = "built"
        /\ calls[d].pc = "built"
        /\ calls[c].arg = calls[d].arg
        /\ Len(calls[c].fields) = 2
        /\ calls[c].result = calls[d].result

\* C27: for every tag of three characters, digits or not, buildField writes
\* the field as a data field (indicators and subfields) exactly when
\* processField reads the field of that tag as a data field.
C27_ClassificationAgrees ==
    (pc = "parsed")
    => /\ ~parsed.threw
       /\ Len(parsed.records) = RecordCount
       /\ \A i \in 1..RecordCount :
            /\ Len(parsed.records[i].fields) = Len(inputs[i])
            /\ \A k \in 1..Len(inputs[i]) :
                 Len(inputs[i][k].tag) = 3
                 => (/\ parsed.records[i].fields[k].tag = inputs[i][k].tag
                     /\ Ge(ParseInt(inputs[i][k].tag, 0), 10)
                        <=> ("subfields" \in DOMAIN parsed.records[i].fields[k]))

\* The bytes after the written records begin with a full leader that declares
\* a positive total length smaller than a leader.
ShortLengthAtGarbage ==
    /\ Len(garbage) >= LeaderLength
    /\ NumberAt(garbage, 0, 5) > 0
    /\ NumberAt(garbage, 0, 5) < LeaderLength

\* C28: every byte range parse hands to parseRecord holds a full leader of 24
\* bytes, and a leader that declares a positive total length below 24 does
\* not make parse raise.
C28_FullLeaderHanded ==
    (pc = "parsed")
    => /\ \A n \in 1..Len(parsed.ranges) : parsed.ranges[n][2] >= LeaderLength
       /\ ShortLengthAtGarbage => ~parsed.threw

\* C29: every 12-byte directory entry parseRecord reads lies inside the
\* directory span [24, baseAddress - 1) of its record: none is read from
\* bytes at or beyond the position of the directory terminator.
C29_EntriesInsideDirectory ==
    (pc = "parsed")
    => \A n \in 1..Len(parsed.ranges) :
         parsed.ranges[n][2] >= LeaderLength
         => LET header == HeaderOf(RecordBytes(n))
            IN  \A k \in 1..Len(header.entries) :
                   /\ EntryOffset(k - 1) >= LeaderLength
                   /\ EntryOffset(k - 1) + EntryLength <= header.baseAddress - 1

\* The k-th directory entry read in a record buffer names bytes beyond the
\* record: baseAddress + start + length exceeds the record's length.
RunsPastRecord(rec, k) ==
    LET header == HeaderOf(rec)
    IN  ToIndex(Add(header.baseAddress, header.entries[k].start))
        + ToIndex(header.entries[k].length) > Len(rec)

\* C30: every field parse returns is made of bytes of its own record's range
\* [offset, offset + length) only: its entry's slice lies inside the range and
\* the field is the one decoded from those bytes.  A record with an entry that
\* runs past the record gives no field: parse returns no record for it.
C30_FieldsConfinedToRecord ==
    (pc = "parsed")
    => /\ \A i \in 1..Len(parsed.records) :
            LET rec == RecordBytes(i)
                header == HeaderOf(rec)
            IN  /\ Len(parsed.records[i].fields) = Len(header.entries)
                /\ \A k \in 1..Len(header.entries) :
                     /\ ~RunsPastRecord(rec, k)
                     /\ ToIndex(Add(header.baseAddress, header.entries[k].start)) >= 0
                     /\ parsed.records[i].fields[k]
                        = processField(ExtractField(rec, header.baseAddress, header.entries[k]))
       /\ \A n \in 1..Len(parsed.ranges) :
            (/\ parsed.ranges[n][2] >= LeaderLength
             /\ \E k \in 1..Len(HeaderOf(RecordBytes(n)).entries) : RunsPastRecord(RecordBytes(n), k))
            => Len(parsed.records) < n

\* C30 witness: parse met a record whose second entry runs past the record
\* into the record that follows it in the file, and returned no field of it.
C30_Witness ==
    /\ pc = "parsed"
    /\ parsed.threw
    /\ Len(parsed.ranges) >= 1
    /\ LET n == Len(parsed.ranges)
       IN  /\ parsed.ranges[n][2] >= LeaderLength
           /\ Len(HeaderOf(RecordBytes(n)).entries) = 2
           /\ RunsPastRecord(RecordBytes(n), 2)
           /\ ~RunsPastRecord(RecordBytes(n), 1)
           /\ LET header == HeaderOf(RecordBytes(n))
              IN  parsed.ranges[n][1] + header.baseAddress + header.entries[2].start
                  + header.entries[2].length <= Len(fileData)
           /\ parsed.records = <<>>

====
